---------------------------- MODULE Spec2Model ----------------------------
(***************************************************************************)
(* A model of clairvoyance/graphql.py: the TypeRef wire codec, the Type    *)
(* and Schema entities with their introspection serialisation, and the    *)
(* Schema graph operations (add_type, get_path_from_root,                  *)
(* get_type_without_fields, convert_path_to_document).                     *)
(*                                                                         *)
(* Python values are modelled as follows.                                  *)
(*   None                    the string NoneVal                            *)
(*   a wire node (dict with  a non-empty sequence of [kind, name] levels,  *)
(*   kind/name/ofType)       outermost first; the last level has           *)
(*                           ofType = None                                 *)
(*   a call's outcome        a record with a tag: "ok" (a value is         *)
(*                           returned), "none" (None is returned),         *)
(*                           "raise" (an exception, named in exc), and for *)
(*                           get_path_from_root "diverges" (the while loop *)
(*                           never exits)                                  *)
(*   a str built by f"..."   the sequence of its blank-separated tokens    *)
(***************************************************************************)
EXTENDS Integers, Sequences, FiniteSets, TLC

VARIABLES
    roots,        \* Schema._schema's queryType/mutationType/subscriptionType: a name or NoneVal
    types,        \* Schema.types: name -> [kind, fields]
    order,        \* insertion order of the keys of Schema.types (dict order)
    schemaTypes,  \* Schema._schema["types"]: the list Schema.to_json appends to
    jsonCalls,    \* number of Schema.to_json calls made so far
    ret,          \* the last operation on the schema: its name, arguments and outcome
    cpc,          \* codec run: "idle", "ref", "encoded", "failed", "roundtrip", "wire", "decoded"
    ref,          \* the TypeRef handed to TypeRef.to_json
    wire,         \* the wire node handed to field_or_arg_type_from_json
    decoded       \* the outcome of field_or_arg_type_from_json(wire)

schemaVars == <<roots, types, order, schemaTypes, jsonCalls, ret>>
codecVars == <<cpc, ref, wire, decoded>>
vars == <<roots, types, order, schemaTypes, jsonCalls, ret, cpc, ref, wire, decoded>>

NoneVal == "None"

-----------------------------------------------------------------------------
(* Bounds of the model and the small sets the inputs are drawn from.       *)

MaxDepth == 5        \* longest ofType chain (number of nodes) of an input wire node
MaxFields == 2       \* most discovered (non-placeholder) fields in a schema
MaxJsonCalls == 2    \* Schema.to_json calls per Schema
MaxPathFields == 2   \* field names after the head of a path given to convert_path_to_document

WrapperKinds == {"NON_NULL", "LIST"}
BaseKinds == {"SCALAR", "OBJECT", "INTERFACE", "UNION", "ENUM", "INPUT_OBJECT"}
RefNames == {"String", "TypeA"}
WireLevelKinds == {"NON_NULL", "LIST", "OBJECT", "FOO"}

-----------------------------------------------------------------------------
(* TypeRef and its codec.                                                  *)

TypeRef(name, kind, is_list, is_list_item_nullable, is_nullable, is_input_object) ==
    [name |-> name, kind |-> kind, is_list |-> is_list,
     is_list_item_nullable |-> is_list_item_nullable,
     is_nullable |-> is_nullable, is_input_object |-> is_input_object,
     non_null |-> ~is_nullable, list |-> is_list,
     non_null_item |-> ~is_list_item_nullable]

\* TypeRef(name=..., kind=...) with the constructor's defaults for the flags.
DefaultTypeRef(name, kind) == TypeRef(name, kind, FALSE, FALSE, TRUE, FALSE)

Node(kind, name) == [kind |-> kind, name |-> name]
Wrap(kind, j) == <<Node(kind, NoneVal)>> \o j

Ok(v) == [tag |-> "ok", val |-> v]
ReturnsNone == [tag |-> "none"]
Raise(e) == [tag |-> "raise", exc |-> e]

\* TypeRef.to_json: the wire node, or the AttributeError of self.ofType.
TypeRef_to_json(r) ==
    LET j0 == <<Node(r.kind, r.name)>>
        j1 == IF r.non_null_item THEN Wrap("NON_NULL", j0) ELSE j0
        j2 == IF r.list THEN Wrap("LIST", j1) ELSE j1
        j3 == IF r.non_null THEN Wrap("NON_NULL", j2) ELSE j2
    IN  IF r.is_input_object THEN Raise("AttributeError") ELSE Ok(j3)

\* field_or_arg_type_from_json on the chain jso (jso[1] is the outer node,
\* jso[i+1] is jso[i]["ofType"], and the last node's ofType is None).
field_or_arg_type_from_json(jso) ==
    LET n == Len(jso)
        kind == jso[1].kind
    IN  IF kind \notin WrapperKinds
          THEN Ok(DefaultTypeRef(jso[1].name, jso[1].kind))
        ELSE IF n = 1
          THEN Raise("TypeError")          \* None["ofType"]
        ELSE IF n = 2
          THEN IF kind = "NON_NULL"
                 THEN Ok(TypeRef(jso[2].name, jso[2].kind, FALSE, FALSE, FALSE, FALSE))
                 ELSE Ok(TypeRef(jso[2].name, jso[2].kind, TRUE, FALSE, TRUE, FALSE))
        ELSE IF n = 3
          THEN IF kind = "NON_NULL"
                 THEN ReturnsNone          \* pass: typ stays None
                 ELSE Ok(TypeRef(jso[3].name, jso[3].kind, TRUE, FALSE, TRUE, FALSE))
        ELSE IF n = 4
          THEN Ok(TypeRef(jso[4].name, jso[4].kind, TRUE, FALSE, FALSE, FALSE))
        ELSE Raise("Exception")            \* too many 'ofType'

-----------------------------------------------------------------------------
(* The codec's runs: a TypeRef is built and encoded, or a wire node is     *)
(* received, and the wire node is decoded.                                 *)

Refs ==
    {TypeRef(n, k, l, i, u, o) :
        n \in RefNames, k \in BaseKinds, l \in BOOLEAN, i \in BOOLEAN,
        u \in BOOLEAN, o \in BOOLEAN}

\* The name a wire node of the given kind carries: wrappers carry None.
LevelName(kind) == IF kind \in WrapperKinds THEN NoneVal ELSE "TypeA"

RECURSIVE Chains(_)
Chains(n) ==
    IF n = 0 THEN {<<>>}
    ELSE {<<Node(k, LevelName(k))>> \o c : k \in WireLevelKinds, c \in Chains(n - 1)}

Wires == UNION {Chains(n) : n \in 1..MaxDepth}

CodecIdle ==
    /\ cpc = "idle"
    /\ ref = DefaultTypeRef("", "")
    /\ wire = <<>>
    /\ decoded = ReturnsNone

MakeRef ==
    /\ cpc \in {"idle", "failed", "decoded", "roundtrip"}
    /\ \E r \in Refs : ref' = r
    /\ cpc' = "ref"
    /\ wire' = <<>>
    /\ decoded' = ReturnsNone
    /\ UNCHANGED schemaVars

Encode ==
    /\ cpc = "ref"
    /\ LET j == TypeRef_to_json(ref)
       IN  IF j.tag = "ok"
             THEN wire' = j.val /\ cpc' = "encoded"
             ELSE wire' = <<>> /\ cpc' = "failed"
    /\ UNCHANGED <<ref, decoded>>
    /\ UNCHANGED schemaVars

ReceiveWire ==
    /\ cpc \in {"idle", "failed", "decoded", "roundtrip"}
    /\ \E w \in Wires : wire' = w
    /\ cpc' = "wire"
    /\ ref' = DefaultTypeRef("", "")
    /\ decoded' = ReturnsNone
    /\ UNCHANGED schemaVars

Decode ==
    /\ cpc \in {"encoded", "wire"}
    /\ decoded' = field_or_arg_type_from_json(wire)
    /\ cpc' = IF cpc = "encoded" THEN "roundtrip" ELSE "decoded"
    /\ UNCHANGED <<ref, wire>>
    /\ UNCHANGED schemaVars

-----------------------------------------------------------------------------
(* Field, Type and their serialisation.  Field.args is always empty in the *)
(* schemas of this model and is left out of the Field record.              *)

Field(name, typ) == [name |-> name, type |-> typ]
Type(name, kind, fields) == [name |-> name, kind |-> kind, fields |-> fields]

\* The placeholder Type.to_json builds: Field("dummy") of type String/SCALAR.
DummyField == Field("dummy", DefaultTypeRef("String", "SCALAR"))

\* Field.to_json: the keys that are not constants.
Field_to_json(f) == [name |-> f.name, type |-> TypeRef_to_json(f.type).val]

\* Field.from_json with "args": []; Field(typ=None) falls back to TypeRef().
Field_from_json(jso) ==
    LET typ == field_or_arg_type_from_json(jso.type)
    IN  Field(jso.name, IF typ.tag = "ok" THEN typ.val ELSE DefaultTypeRef("", ""))

\* A variant of the side effect that patches every field list.
FieldsAlwaysPatched(fields) == Append(fields, DummyField)

\* The side effect of Type.to_json on self.fields (the "dirty hack").
FieldsAfterToJson(fields) ==
    IF fields = <<>> THEN Append(fields, DummyField) ELSE fields

\* The dict Type.to_json returns for a type whose fields are already patched:
\* a key the code does not set is "absent", a key set to None is NoneVal.
Type_to_json(t) ==
    LET fs == [i \in 1..Len(t.fields) |-> Field_to_json(t.fields[i])]
    IN  [kind |-> t.kind, name |-> t.name,
         fields |-> IF t.kind \in {"OBJECT", "INTERFACE"} THEN fs
                    ELSE IF t.kind = "INPUT_OBJECT" THEN NoneVal ELSE "absent",
         inputFields |-> IF t.kind \in {"OBJECT", "INTERFACE"} THEN NoneVal
                         ELSE IF t.kind = "INPUT_OBJECT" THEN fs ELSE "absent"]

RECURSIVE SkipDummy(_)
SkipDummy(fs) ==
    IF fs = <<>> THEN <<>>
    ELSE IF Head(fs).name = "dummy" THEN SkipDummy(Tail(fs))
    ELSE <<Field_from_json(Head(fs))>> \o SkipDummy(Tail(fs))

Type_from_json(jso) ==
    Type(jso.name, jso.kind,
         IF jso.kind \in {"OBJECT", "INTERFACE"} THEN SkipDummy(jso.fields)
         ELSE IF jso.kind = "INPUT_OBJECT" THEN SkipDummy(jso.inputFields)
         ELSE <<>>)

-----------------------------------------------------------------------------
(* Schema: construction and add_type.  A schema's type dict is the pair    *)
(* [types, order]: the mapping and the insertion order of its keys.        *)

\* A variant of add_type that overwrites an existing entry.
add_type_overwrite(S, name, kind) ==
    [types |-> [n \in DOMAIN S.types \cup {name} |->
                    IF n = name THEN Type(name, kind, <<>>) ELSE S.types[n]],
     order |-> IF name \in DOMAIN S.types THEN S.order ELSE Append(S.order, name)]

add_type(S, name, kind) ==
    IF name \notin DOMAIN S.types
      THEN [types |-> [n \in DOMAIN S.types \cup {name} |->
                          IF n = name THEN Type(name, kind, <<>>) ELSE S.types[n]],
            order |-> Append(S.order, name)]
      ELSE S

AddIfSet(S, name) == IF name # NoneVal THEN add_type(S, name, "OBJECT") ELSE S

\* Schema.__init__ without a schema argument.
FreshTypes(queryType, mutationType, subscriptionType) ==
    LET S0 == [types |-> [n \in {"String", "ID"} |-> Type(n, "SCALAR", <<>>)],
               order |-> <<"String", "ID">>]
    IN  AddIfSet(AddIfSet(AddIfSet(S0, queryType), mutationType), subscriptionType)

\* Schema.__init__ with a schema argument: self.types[typ.name] = typ for each
\* entry of the document's types array.
RECURSIVE DecodedTypes(_, _)
DecodedTypes(S, ts) ==
    IF ts = <<>> THEN S
    ELSE LET typ == Type_from_json(Head(ts))
             S1 == [types |-> [n \in DOMAIN S.types \cup {typ.name} |->
                                  IF n = typ.name THEN typ ELSE S.types[n]],
                    order |-> IF typ.name \in DOMAIN S.types THEN S.order
                              ELSE Append(S.order, typ.name)]
         IN  DecodedTypes(S1, Tail(ts))

EmptyTypes == [types |-> [n \in {} |-> Type(n, "", <<>>)], order |-> <<>>]

\* A handcrafted introspection document: an object type that nothing refers
\* to listed before the root, field lists holding only the placeholder, an
\* input object and an enum.
WireField(name, tname, tkind) == [name |-> name, type |-> <<Node(tkind, tname)>>]
Document ==
    [queryType |-> "Query", mutationType |-> NoneVal, subscriptionType |-> NoneVal,
     types |-> <<
        [name |-> "TypeB", kind |-> "OBJECT", inputFields |-> NoneVal,
         fields |-> <<WireField("a", "TypeA", "OBJECT")>>],
        [name |-> "Query", kind |-> "OBJECT", inputFields |-> NoneVal,
         fields |-> <<WireField("dummy", "String", "SCALAR")>>],
        [name |-> "TypeA", kind |-> "OBJECT", inputFields |-> NoneVal,
         fields |-> <<WireField("dummy", "String", "SCALAR")>>],
        [name |-> "Filter", kind |-> "INPUT_OBJECT", fields |-> NoneVal,
         inputFields |-> <<WireField("dummy", "String", "SCALAR")>>],
        [name |-> "Color", kind |-> "ENUM", fields |-> NoneVal,
         inputFields |-> NoneVal] >>]

NoCall == [op |-> "__init__", arg |-> NoneVal, out |-> ReturnsNone]

FreshInit(q, m, s) ==
    /\ roots = [queryType |-> q, mutationType |-> m, subscriptionType |-> s]
    /\ types = FreshTypes(q, m, s).types
    /\ order = FreshTypes(q, m, s).order
    /\ schemaTypes = <<>>
    /\ jsonCalls = 0
    /\ ret = NoCall

DecodedInit ==
    /\ roots = [queryType |-> Document.queryType, mutationType |-> Document.mutationType,
                subscriptionType |-> Document.subscriptionType]
    /\ types = DecodedTypes(EmptyTypes, Document.types).types
    /\ order = DecodedTypes(EmptyTypes, Document.types).order
    /\ schemaTypes = <<>>
    /\ jsonCalls = 0
    /\ ret = NoCall

-----------------------------------------------------------------------------
(* Schema: the queries.                                                    *)

\* The list `roots` of get_path_from_root, as the set of its members.
RootNames(R) == {R.queryType, R.mutationType, R.subscriptionType} \ {NoneVal, ""}

\* for f in t.fields (from index i on), with st = [name, path] the loop's
\* variables `name` and `path_from_root`.
RECURSIVE ScanFields(_, _, _, _)
ScanFields(tname, fields, i, st) ==
    IF i > Len(fields) THEN st
    ELSE IF fields[i].type.name = st.name
      THEN ScanFields(tname, fields, i + 1,
                      [name |-> tname, path |-> <<fields[i].name>> \o st.path])
      ELSE ScanFields(tname, fields, i + 1, st)

\* for t in self.types.values() (from index i of the insertion order on).
RECURSIVE ScanTypes(_, _, _)
ScanTypes(S, i, st) ==
    IF i > Len(S.order) THEN st
    ELSE ScanTypes(S, i + 1, ScanFields(S.order[i], S.types[S.order[i]].fields, 1, st))

Diverges == [tag |-> "diverges"]

\* while name not in roots: one scan per iteration.  The schema does not
\* change during the call, so the name at the head of an iteration decides
\* every later head; a head that comes back means the loop never exits.
RECURSIVE Search(_, _, _, _)
Search(S, R, st, heads) ==
    IF st.name \in RootNames(R) THEN Ok(<<st.name>> \o st.path)
    ELSE IF st.name \in heads THEN Diverges
    ELSE Search(S, R, ScanTypes(S, 1, st), heads \cup {st.name})

get_path_from_root(S, R, name) ==
    IF name \notin DOMAIN S.types THEN Raise("Exception: not in schema")
    ELSE Search(S, R, [name |-> name, path |-> <<>>], {})

RECURSIVE FirstWithoutFields(_, _, _)
FirstWithoutFields(S, i, ignore) ==
    IF i > Len(S.order) THEN ""
    ELSE LET t == S.types[S.order[i]]
         IN  IF t.fields = <<>> /\ t.name \notin ignore /\ t.kind # "INPUT_OBJECT"
               THEN t.name
               ELSE FirstWithoutFields(S, i + 1, ignore)

get_type_without_fields(S, ignore) == FirstWithoutFields(S, 1, ignore)

\* while len(path) > 1: doc = f"{path.pop()} {{ {doc} }}"
RECURSIVE WrapFields(_, _)
WrapFields(path, doc) ==
    IF Len(path) > 1
      THEN WrapFields(SubSeq(path, 1, Len(path) - 1),
                      <<path[Len(path)], "{">> \o doc \o <<"}">>)
      ELSE doc

Operation(keyword, doc) == <<keyword, "{">> \o doc \o <<"}">>

\* convert_path_to_document for a non-empty path; X["name"] with X = None is
\* a TypeError.
convert_path_to_document(R, path) ==
    LET doc == WrapFields(path, <<"FUZZ">>)
    IN  IF R.queryType = NoneVal THEN Raise("TypeError")
        ELSE IF path[1] = R.queryType THEN Ok(Operation("query", doc))
        ELSE IF R.mutationType = NoneVal THEN Raise("TypeError")
        ELSE IF path[1] = R.mutationType THEN Ok(Operation("mutation", doc))
        ELSE IF R.subscriptionType = NoneVal THEN Raise("TypeError")
        ELSE IF path[1] = R.subscriptionType THEN Ok(Operation("subscription", doc))
        ELSE Raise("Exception: Unknown operation type")

\* Schema.to_json: t.to_json() for every type, in dict order, appended to
\* self._schema["types"].  PatchedTypes is the type dict after the calls and
\* Schema_to_json the list self._schema["types"] after them.
PatchedTypes(T) ==
    [n \in DOMAIN T |-> Type(T[n].name, T[n].kind, FieldsAfterToJson(T[n].fields))]

Schema_to_json(S, old) ==
    old \o [i \in 1..Len(S.order) |-> Type_to_json(PatchedTypes(S.types)[S.order[i]])]

-----------------------------------------------------------------------------
(* The operations on a Schema, as one action each.  `ret` records the call *)
(* and its outcome.                                                        *)

AddNames == {"TypeA", "TypeB"}
AddKinds == {"OBJECT", "ENUM"}
OwnerKinds == {"OBJECT", "INTERFACE", "INPUT_OBJECT"}
\* The fields discovery appends: a field name and the type it refers to.
FieldChoices ==
    {[name |-> "a", target |-> "TypeA"], [name |-> "b", target |-> "TypeB"],
     [name |-> "q", target |-> "Query"]}
IgnoreSets == {{}, {"String", "ID"}, {"String", "ID", "Query"}}
PathHeads == {"Query", "Mutation", "Subscription", "TypeA"}
PathFieldNames == {"a", "b"}

Call(op, arg, out) == [op |-> op, arg |-> arg, out |-> out]
Schema == [types |-> types, order |-> order]
RECURSIVE SumOver(_, _)
SumOver(f, D) ==
    IF D = {} THEN 0
    ELSE LET x == CHOOSE y \in D : TRUE IN f[x] + SumOver(f, D \ {x})
\* The number of fields of the schema that are not the placeholder.
RealFields(T) ==
    SumOver([n \in DOMAIN T |->
                Cardinality({i \in 1..Len(T[n].fields) : T[n].fields[i].name # "dummy"})],
            DOMAIN T)
FieldNames(fields) == {fields[i].name : i \in 1..Len(fields)}

AddType ==
    \E name \in AddNames, kind \in AddKinds :
        LET S == add_type(Schema, name, kind)
        IN  /\ types' = S.types
            /\ order' = S.order
            /\ ret' = Call("add_type", [name |-> name, kind |-> kind], ReturnsNone)
            /\ UNCHANGED <<roots, schemaTypes, jsonCalls>>
            /\ UNCHANGED codecVars

\* A caller appends a discovered Field to schema.types[t].fields.
AppendField ==
    \E t \in DOMAIN types, c \in FieldChoices :
        /\ types[t].kind \in OwnerKinds
        /\ RealFields(types) < MaxFields
        /\ c.target \in DOMAIN types
        /\ c.name \notin FieldNames(types[t].fields)
        /\ LET f == Field(c.name, DefaultTypeRef(c.target, types[c.target].kind))
           IN  /\ types' = [types EXCEPT ![t].fields = Append(@, f)]
               /\ ret' = Call("append", t, ReturnsNone)
        /\ UNCHANGED <<roots, order, schemaTypes, jsonCalls>>
        /\ UNCHANGED codecVars

\* schema.types[t].to_json()
TypeToJson ==
    \E t \in DOMAIN types :
        /\ types' = [types EXCEPT ![t].fields = FieldsAfterToJson(@)]
        /\ ret' = Call("Type.to_json", t, Ok(Type_to_json(types'[t])))
        /\ UNCHANGED <<roots, order, schemaTypes, jsonCalls>>
        /\ UNCHANGED codecVars

SchemaToJson ==
    /\ jsonCalls < MaxJsonCalls
    /\ jsonCalls' = jsonCalls + 1
    /\ types' = PatchedTypes(types)
    /\ schemaTypes' = Schema_to_json(Schema, schemaTypes)
    /\ ret' = Call("Schema.to_json", NoneVal, Ok(schemaTypes'))
    /\ UNCHANGED <<roots, order>>
    /\ UNCHANGED codecVars

GetTypeWithoutFields ==
    \E ignore \in IgnoreSets :
        /\ ret' = Call("get_type_without_fields", ignore,
                       Ok(get_type_without_fields(Schema, ignore)))
        /\ UNCHANGED <<roots, types, order, schemaTypes, jsonCalls>>
        /\ UNCHANGED codecVars

GetPathFromRoot ==
    \E name \in DOMAIN types \cup AddNames :
        /\ ret' = Call("get_path_from_root", name, get_path_from_root(Schema, roots, name))
        /\ UNCHANGED <<roots, types, order, schemaTypes, jsonCalls>>
        /\ UNCHANGED codecVars

RECURSIVE Tails(_)
Tails(n) ==
    IF n = 0 THEN {<<>>}
    ELSE Tails(n - 1) \cup {Append(p, f) : p \in Tails(n - 1), f \in PathFieldNames}

ConvertPathToDocument ==
    \E head \in PathHeads, tail \in Tails(MaxPathFields) :
        /\ ret' = Call("convert_path_to_document", <<head>> \o tail,
                       convert_path_to_document(roots, <<head>> \o tail))
        /\ UNCHANGED <<roots, types, order, schemaTypes, jsonCalls>>
        /\ UNCHANGED codecVars

-----------------------------------------------------------------------------
(* Specifications.                                                         *)

\* Growth of a Schema, serialisation of its types and the search for a
\* type without fields.
Init ==
    /\ CodecIdle
    /\ (FreshInit("Query", NoneVal, NoneVal) \/ DecodedInit)

Next == AddType \/ AppendField \/ TypeToJson \/ GetTypeWithoutFields

Spec == Init /\ [][Next]_vars

\* Growth of a Schema and its serialisation as a whole.
JsonNext == AddType \/ AppendField \/ SchemaToJson

JsonSpec == Init /\ [][JsonNext]_vars

\* Growth of a Schema and the search for a path from a root.
PathInit ==
    /\ CodecIdle
    /\ \/ \E q \in {NoneVal, "Query"} : FreshInit(q, NoneVal, NoneVal)
       \/ DecodedInit

PathNext == AddType \/ AppendField \/ GetPathFromRoot

PathSpec == PathInit /\ [][PathNext]_vars

\* Document synthesis under every combination of root bindings.
DocInit ==
    /\ CodecIdle
    /\ \E q \in {NoneVal, "Query"}, m \in {NoneVal, "Mutation"},
          s \in {NoneVal, "Subscription"} : FreshInit(q, m, s)

DocNext == ConvertPathToDocument

DocSpec == DocInit /\ [][DocNext]_vars

\* The TypeRef codec on its own.
CodecInit == CodecIdle /\ FreshInit(NoneVal, NoneVal, NoneVal)

CodecNext == MakeRef \/ Encode \/ ReceiveWire \/ Decode

CodecSpec == CodecInit /\ [][CodecNext]_vars

-----------------------------------------------------------------------------
(* Properties of the codec (CodecSpec).                                    *)

\* The nesting shapes the codec is said to support: bare, NON_NULL, LIST,
\* LIST of NON_NULL, NON_NULL LIST of NON_NULL.  The only combination of
\* flags left out is a non-nullable list of nullable items.
SupportedShape(r) ==
    \/ ~r.is_list
    \/ r.is_list /\ r.is_nullable
    \/ r.is_list /\ ~r.is_list_item_nullable /\ ~r.is_nullable

\* C1: for every TypeRef of a supported nesting shape with is_input_object
\* false, decoding its encoding returns a TypeRef equal to it.
RoundTrip ==
    (cpc = "roundtrip" /\ SupportedShape(ref) /\ ~ref.is_input_object)
        => (decoded.tag = "ok" /\ decoded.val = ref)

\* The five wire shapes: base, NON_NULL(base), LIST(base),
\* LIST(NON_NULL(base)), NON_NULL(LIST(NON_NULL(base))).
KindsOf(w) == [i \in 1..Len(w) |-> IF w[i].kind \in BaseKinds THEN "base" ELSE w[i].kind]
SupportedWire(w) ==
    KindsOf(w) \in {<<"base">>, <<"NON_NULL", "base">>, <<"LIST", "base">>,
                    <<"LIST", "NON_NULL", "base">>,
                    <<"NON_NULL", "LIST", "NON_NULL", "base">>}

\* C8: the decoder returns a TypeRef only for the five supported shapes, and
\* every other wire node makes the call fail with an error: it returns
\* neither a TypeRef nor None.
DecodeRejectsMalformed ==
    cpc \in {"decoded", "roundtrip"} =>
        /\ decoded.tag = "ok" => SupportedWire(wire)
        /\ ~SupportedWire(wire) => decoded.tag = "raise"

-----------------------------------------------------------------------------
(* Properties of document synthesis (DocSpec).                             *)

RECURSIVE Nest(_)
Nest(fields) ==
    IF fields = <<>> THEN <<"FUZZ">>
    ELSE <<Head(fields), "{">> \o Nest(Tail(fields)) \o <<"}">>

KeywordOf(R, head) ==
    IF head = R.queryType THEN "query"
    ELSE IF head = R.mutationType THEN "mutation" ELSE "subscription"

\* C4: under every combination of root bindings, a path whose head is a
\* configured root gives the field names nested in path order around FUZZ
\* inside that root's operation keyword, and a path whose head is no
\* configured root fails with "Unknown operation type" and nothing else.
DocumentOrUnknownOperation ==
    ret.op = "convert_path_to_document" =>
        IF ret.arg[1] \in RootNames(roots)
          THEN /\ ret.out.tag = "ok"
               /\ ret.out.val = Operation(KeywordOf(roots, ret.arg[1]), Nest(Tail(ret.arg)))
          ELSE /\ ret.out.tag = "raise"
               /\ ret.out.exc = "Exception: Unknown operation type"

-----------------------------------------------------------------------------
(* Properties of schema growth and serialisation (Spec, JsonSpec).         *)

\* C5: add_type with a name already present changes nothing of the schema,
\* add_type with a new name adds exactly one fieldless Type of the given
\* kind and leaves every other Type and the root bindings as they were, and
\* no step removes a type.
AddTypeFirstWriteWins ==
    [][/\ DOMAIN types \subseteq DOMAIN types'
       /\ ret'.op = "add_type" =>
            /\ roots' = roots
            /\ schemaTypes' = schemaTypes
            /\ \A n \in DOMAIN types : types'[n] = types[n]
            /\ IF ret'.arg.name \in DOMAIN types
                 THEN types' = types /\ order' = order
                 ELSE /\ DOMAIN types' = DOMAIN types \cup {ret'.arg.name}
                      /\ types'[ret'.arg.name] =
                            Type(ret'.arg.name, ret'.arg.kind, <<>>)]_vars

\* add_type was called with the name of a type that has fields, and with
\* another kind than that type's.
AddTypeOnKnownType ==
    /\ ret.op = "add_type"
    /\ types[ret.arg.name].kind # ret.arg.kind
    /\ types[ret.arg.name].fields # <<>>

\* C7: a field list holds at most one field named "dummy", which is the
\* String/SCALAR placeholder and was appended to an empty list (it is the
\* first field), and a type that to_json was called on has a field.
AtMostOneDummy ==
    \A n \in DOMAIN types :
        LET fs == types[n].fields
        IN  /\ \A i \in 1..Len(fs) :
                  fs[i].name = "dummy" => (i = 1 /\ fs[i] = DummyField)
            /\ (ret.op = "Type.to_json" /\ ret.arg = n) => fs # <<>>

\* to_json was called on a type that holds the placeholder and a real field.
ToJsonAfterDummyAndField ==
    /\ ret.op = "Type.to_json"
    /\ Len(types[ret.arg].fields) = 2
    /\ types[ret.arg].fields[1] = DummyField

HasKnownField(t) == \E i \in 1..Len(t.fields) : t.fields[i].name # "dummy"
Undiscovered(T, ignore) ==
    {n \in DOMAIN T : /\ T[n].kind # "INPUT_OBJECT"
                      /\ n \notin ignore
                      /\ ~HasKnownField(T[n])}

\* C6: get_type_without_fields(ignore) returns a type that is no
\* INPUT_OBJECT, is not in ignore and has no known field (the placeholder
\* is no known field), and returns "" only when there is no such type.
ReturnsUndiscoveredType ==
    ret.op = "get_type_without_fields" =>
        IF ret.out.val = ""
          THEN Undiscovered(types, ret.arg) = {}
          ELSE ret.out.val \in Undiscovered(types, ret.arg)

\* C9: every Type of kind SCALAR, ENUM or UNION has an empty field list.
LeafKindsHaveNoFields ==
    \A n \in DOMAIN types :
        types[n].kind \in {"SCALAR", "ENUM", "UNION"} => types[n].fields = <<>>

\* C10: the types array Schema.to_json produces holds exactly one entry per
\* type of the schema, and a call that directly follows another call
\* produces the array that call produced.
OneEntryPerType ==
    [][ret'.op = "Schema.to_json" =>
          /\ Len(ret'.out.val) = Cardinality(DOMAIN types')
          /\ \A n \in DOMAIN types' :
                \E i \in 1..Len(ret'.out.val) : ret'.out.val[i].name = n
          /\ ret.op = "Schema.to_json" => ret'.out.val = ret.out.val]_vars

-----------------------------------------------------------------------------
(* Properties of the search for a path from a root (PathSpec).             *)

RECURSIVE Closure(_, _)
Closure(T, set) ==
    LET next == set \cup {m \in DOMAIN T :
                            \E n \in set : \E i \in 1..Len(T[n].fields) :
                                T[n].fields[i].type.name = m}
    IN  IF next = set THEN set ELSE Closure(T, next)

\* The types a chain of fields starting at a configured root reaches.
Reachable(T, R) == Closure(T, RootNames(R) \cap DOMAIN T)

\* fs is a chain of fields that leads from type cur to type target.
RECURSIVE Leads(_, _, _, _)
Leads(T, cur, fs, target) ==
    IF fs = <<>> THEN cur = target
    ELSE /\ cur \in DOMAIN T
         /\ \E i \in 1..Len(T[cur].fields) :
                /\ T[cur].fields[i].name = Head(fs)
                /\ Leads(T, T[cur].fields[i].type.name, Tail(fs), target)

FieldNameSeq(t) == [i \in 1..Len(t.fields) |-> t.fields[i].name]

\* The schema {Query: {a: TypeA}, TypeA: {b: TypeB}} with root Query.
ExampleSchema ==
    /\ roots.queryType = "Query"
    /\ order = <<"String", "ID", "Query", "TypeA", "TypeB">>
    /\ FieldNameSeq(types["Query"]) = <<"a">>
    /\ FieldNameSeq(types["TypeA"]) = <<"b">>
    /\ FieldNameSeq(types["TypeB"]) = <<>>

\* C2: for a target a configured root reaches, get_path_from_root returns a
\* configured root followed by a chain of fields leading from it to the
\* target; on the example schema the path to TypeB is [Query, a, b].
PathFromRootFound ==
    (ret.op = "get_path_from_root" /\ ret.arg \in Reachable(types, roots)) =>
        /\ ret.out.tag = "ok"
        /\ ret.out.val[1] \in RootNames(roots)
        /\ Leads(types, ret.out.val[1], Tail(ret.out.val), ret.arg)
        /\ (ExampleSchema /\ ret.arg = "TypeB") => ret.out.val = <<"Query", "a", "b">>

\* C3: for a target of the type set that no configured root reaches,
\* get_path_from_root ends with a failure that is not the unknown-type error.
UnreachableTargetFails ==
    (/\ ret.op = "get_path_from_root"
     /\ ret.arg \in DOMAIN types
     /\ ret.arg \notin Reachable(types, roots)) =>
        /\ ret.out.tag = "raise"
        /\ ret.out.exc # "Exception: not in schema"

=============================================================================
